---------------------------- MODULE Spec2Model ----------------------------
(***************************************************************************)
(* A model of the swap payload code of crypto/src/swap.rs (canonical       *)
(* 153-octet codec, protobuf bridge, the two AEAD layers) and of the       *)
(* example indexer crates/util/cometindex/examples/fmd_clues.rs.           *)
(*                                                                         *)
(* The operations of swap.rs are pure functions: each is an operator here, *)
(* and each specification below draws the inputs of one call from bounded  *)
(* sets and records the call and its result in (op, arg, res).             *)
(*                                                                         *)
(* Octet strings are sequences over 0..255 with the real lengths (32, 64,  *)
(* 80, 153, 169).  The primitives swap.rs calls but does not define        *)
(* (decaf377, ka, blake2b_simd, chacha20poly1305, asset::Id) are scaled    *)
(* down: a prime-order group Z_GroupOrder, a field of FqModulus elements,  *)
(* a mixing function for Blake2b and a stream-xor-with-tag for the AEAD,   *)
(* each with the interface and the partiality of the original.             *)
(***************************************************************************)
EXTENDS Integers, Sequences, FiniteSets, TLC

VARIABLES op, arg, res, sealed, tables, rows

vars == <<op, arg, res, sealed, tables, rows>>

----------------------------------------------------------------------------
(* Program constants                                                       *)

SWAP_CIPHERTEXT_BYTES == 169
SWAP_LEN_BYTES == 153
OVK_WRAPPED_LEN_BYTES == 80
SWAP_TYPE == 0

\* SWAP_ENCRYPTION_NONCE: Lazy<[u8; 12]> = [0u8; 12]
SWAP_ENCRYPTION_NONCE == [i \in 1..12 |-> 0]

----------------------------------------------------------------------------
(* Results: Ok(v), Err(e), or a panic (an `expect` that failed).           *)

Ok(v) == [status |-> "ok", val |-> v]
Err(e) == [status |-> "err", err |-> e]
Panic(m) == [status |-> "panic", msg |-> m]

IsOk(r) == r.status = "ok"
IsErr(r) == r.status = "err"

\* swap.rs `enum Error`: the three typed error kinds.
SwapError(kind) == [ty |-> "swap::Error", kind |-> kind]

\* anyhow::anyhow!(msg): an untyped error carrying only its message.
Anyhow(msg) == [ty |-> "anyhow", msg |-> msg]

----------------------------------------------------------------------------
(* Octets                                                                  *)

Zeros(n) == [i \in 1..n |-> 0]

\* A 32-octet little-endian string whose value fits its lowest octet.
Low32(b) == [i \in 1..32 |-> IF i = 1 THEN b ELSE 0]

Bit(b, k) == (b \div (2 ^ k)) % 2

\* Bitwise exclusive or of two octets.
XorByte(a, b) ==
    ((Bit(a, 0) + Bit(b, 0)) % 2)
    + 2 * ((Bit(a, 1) + Bit(b, 1)) % 2)
    + 4 * ((Bit(a, 2) + Bit(b, 2)) % 2)
    + 8 * ((Bit(a, 3) + Bit(b, 3)) % 2)
    + 16 * ((Bit(a, 4) + Bit(b, 4)) % 2)
    + 32 * ((Bit(a, 5) + Bit(b, 5)) % 2)
    + 64 * ((Bit(a, 6) + Bit(b, 6)) % 2)
    + 128 * ((Bit(a, 7) + Bit(b, 7)) % 2)

\* The string s with bit k (0..7) of octet i (1-based) flipped.
FlipBit(s, i, k) == [s EXCEPT ![i] = XorByte(s[i], 2 ^ k)]

----------------------------------------------------------------------------
(* u64: four 16-bit limbs, least significant first (an integer of   *)
(* TLC has 32 bits, so a u64 is not one integer).                          *)

U64FromLimbs(l0, l1, l2, l3) == <<l0, l1, l2, l3>>

\* u64::to_le_bytes
ToLeBytes(v) == [i \in 1..8 |->
    IF i % 2 = 1 THEN v[(i + 1) \div 2] % 256 ELSE v[i \div 2] \div 256]

\* u64::from_le_bytes
FromLeBytes(b) == [j \in 1..4 |-> b[2 * j - 1] + 256 * b[2 * j]]

----------------------------------------------------------------------------
(* decaf377: a group of prime order GroupOrder, written additively; the    *)
(* element e is compressed to the even octet 2e, and no other string is an *)
(* encoding.                                                               *)

GroupOrder == 5

Element == 0..(GroupOrder - 1)

\* decaf377::Element::compress
Compress(e) == Low32(2 * e)

\* Whether a 32-octet string is the encoding of a group element.
IsEncoding(b) ==
    /\ Len(b) = 32
    /\ b[1] % 2 = 0
    /\ b[1] \div 2 < GroupOrder
    /\ \A i \in 2..32 : b[i] = 0

\* decaf377::Encoding::decompress
Decompress(b) == IF IsEncoding(b) THEN Ok(b[1] \div 2) ELSE Err("decaf377::EncodingError")

----------------------------------------------------------------------------
(* asset::Id: an element of a field of FqModulus elements, 32 octets       *)
(* little-endian, canonical encodings only.                                *)

FqModulus == 251

\* asset::Id -> [u8; 32]  (self.asset_1.0.to_bytes())
AssetIdToBytes(a) == Low32(a)

\* TryFrom<&[u8]> for asset::Id
AssetIdFromBytes(b) ==
    IF Len(b) = 32 /\ b[1] < FqModulus /\ (\A i \in 2..32 : b[i] = 0)
    THEN Ok(b[1])
    ELSE Err(Anyhow("invalid asset id bytes"))

----------------------------------------------------------------------------
(* TradingPair                                                             *)

TradingPairOf(a1, a2) == [asset_1 |-> a1, asset_2 |-> a2]

\* TradingPair::to_bytes
TradingPairToBytes(tp) == AssetIdToBytes(tp.asset_1) \o AssetIdToBytes(tp.asset_2)

\* TryFrom<[u8; 64]> for TradingPair
TradingPairFromBytes(b) ==
    LET a1 == AssetIdFromBytes(SubSeq(b, 1, 32))
        a2 == AssetIdFromBytes(SubSeq(b, 33, 64))
    IN  IF ~IsOk(a1) THEN Err(Anyhow("invalid asset_1 bytes in TradingPair"))
        ELSE IF ~IsOk(a2) THEN Err(Anyhow("invalid asset_2 bytes in TradingPair"))
        ELSE Ok(TradingPairOf(a1.val, a2.val))

----------------------------------------------------------------------------
(* SwapPlaintext and its canonical 153-octet encoding                      *)

\* SwapPlaintext::from_parts: no validation, always Ok.
FromParts(trading_pair, t1, t2, fee, b_d, pk_d) ==
    Ok([trading_pair |-> trading_pair, t1 |-> t1, t2 |-> t2, fee |-> fee,
        b_d |-> b_d, pk_d |-> pk_d])

\* impl From<&SwapPlaintext> for [u8; SWAP_LEN_BYTES], with b_d written before
\* pk_d (a faulty variant of SwapToArray).
SwapToArrayShuffled(swap) ==
    LET tp == TradingPairToBytes(swap.trading_pair)
        t1 == ToLeBytes(swap.t1)
        t2 == ToLeBytes(swap.t2)
        fee == ToLeBytes(swap.fee)
        bd == Compress(swap.b_d)
    IN  [i \in 1..SWAP_LEN_BYTES |->
            IF i = 1 THEN SWAP_TYPE
            ELSE IF i <= 65 THEN tp[i - 1]
            ELSE IF i <= 73 THEN t1[i - 65]
            ELSE IF i <= 81 THEN t2[i - 73]
            ELSE IF i <= 89 THEN fee[i - 81]
            ELSE IF i <= 121 THEN bd[i - 89]
            ELSE swap.pk_d[i - 121]]

\* impl From<&SwapPlaintext> for [u8; SWAP_LEN_BYTES]
SwapToArray(swap) ==
    LET tp == TradingPairToBytes(swap.trading_pair)
        t1 == ToLeBytes(swap.t1)
        t2 == ToLeBytes(swap.t2)
        fee == ToLeBytes(swap.fee)
        bd == Compress(swap.b_d)
    IN  [i \in 1..SWAP_LEN_BYTES |->
            IF i = 1 THEN SWAP_TYPE
            ELSE IF i <= 65 THEN tp[i - 1]
            ELSE IF i <= 73 THEN t1[i - 65]
            ELSE IF i <= 81 THEN t2[i - 73]
            ELSE IF i <= 89 THEN fee[i - 81]
            ELSE IF i <= 121 THEN swap.pk_d[i - 89]
            ELSE bd[i - 121]]

\* impl From<&SwapPlaintext> for Vec<u8>, with b_d appended before pk_d (a
\* faulty variant of SwapToVec).
SwapToVecShuffled(swap) ==
    <<SWAP_TYPE>>
    \o TradingPairToBytes(swap.trading_pair)
    \o ToLeBytes(swap.t1)
    \o ToLeBytes(swap.t2)
    \o ToLeBytes(swap.fee)
    \o Compress(swap.b_d)
    \o swap.pk_d

\* impl From<&SwapPlaintext> for Vec<u8>
SwapToVec(swap) ==
    <<SWAP_TYPE>>
    \o TradingPairToBytes(swap.trading_pair)
    \o ToLeBytes(swap.t1)
    \o ToLeBytes(swap.t2)
    \o ToLeBytes(swap.fee)
    \o swap.pk_d
    \o Compress(swap.b_d)

\* impl TryFrom<&[u8]> for SwapPlaintext, with the type check before the
\* length check (a faulty variant of SwapFromBytes).
SwapFromBytesTypeFirst(bytes) ==
    IF Len(bytes) > 0 /\ bytes[1] # SWAP_TYPE THEN Err(SwapError("SwapTypeUnsupported"))
    ELSE IF Len(bytes) # SWAP_LEN_BYTES THEN Err(SwapError("SwapDeserializationError"))
    ELSE LET tp == TradingPairFromBytes(SubSeq(bytes, 2, 65))
             b_d == Decompress(SubSeq(bytes, 122, 153))
         IN  IF ~IsOk(tp) THEN Err(SwapError("SwapDeserializationError"))
             ELSE IF ~IsOk(b_d) THEN Err(SwapError("SwapDeserializationError"))
             ELSE FromParts(tp.val,
                            FromLeBytes(SubSeq(bytes, 66, 73)),
                            FromLeBytes(SubSeq(bytes, 74, 81)),
                            FromLeBytes(SubSeq(bytes, 82, 89)),
                            b_d.val,
                            SubSeq(bytes, 90, 121))

\* impl TryFrom<&[u8]> for SwapPlaintext
SwapFromBytes(bytes) ==
    IF Len(bytes) # SWAP_LEN_BYTES THEN Err(SwapError("SwapDeserializationError"))
    ELSE IF bytes[1] # SWAP_TYPE THEN Err(SwapError("SwapTypeUnsupported"))
    ELSE LET tp == TradingPairFromBytes(SubSeq(bytes, 2, 65))
             b_d == Decompress(SubSeq(bytes, 122, 153))
         IN  IF ~IsOk(tp) THEN Err(SwapError("SwapDeserializationError"))
             ELSE IF ~IsOk(b_d) THEN Err(SwapError("SwapDeserializationError"))
             ELSE FromParts(tp.val,
                            FromLeBytes(SubSeq(bytes, 66, 73)),
                            FromLeBytes(SubSeq(bytes, 74, 81)),
                            FromLeBytes(SubSeq(bytes, 82, 89)),
                            b_d.val,
                            SubSeq(bytes, 90, 121))

----------------------------------------------------------------------------
(* Protobuf bridge                                                         *)

None == [some |-> FALSE]
Some(v) == [some |-> TRUE, v |-> v]

\* impl From<asset::Id> for pb::AssetId
AssetIdToProto(a) == [inner |-> AssetIdToBytes(a)]

\* impl TryFrom<pb::AssetId> for asset::Id
AssetIdFromProto(m) ==
    IF IsOk(AssetIdFromBytes(m.inner)) THEN AssetIdFromBytes(m.inner)
    ELSE Err(Anyhow("invalid asset id in pb::AssetId"))

\* impl From<TradingPair> for pb::TradingPair
TradingPairToProto(tp) ==
    [asset_1 |-> Some(AssetIdToProto(tp.asset_1)),
     asset_2 |-> Some(AssetIdToProto(tp.asset_2))]

\* impl TryFrom<pb::TradingPair> for TradingPair
TradingPairFromProto(tp) ==
    IF ~tp.asset_1.some THEN Err(Anyhow("missing trading pair asset1"))
    ELSE IF ~IsOk(AssetIdFromProto(tp.asset_1.v)) THEN AssetIdFromProto(tp.asset_1.v)
    ELSE IF ~tp.asset_2.some THEN Err(Anyhow("missing trading pair asset2"))
    ELSE IF ~IsOk(AssetIdFromProto(tp.asset_2.v)) THEN AssetIdFromProto(tp.asset_2.v)
    ELSE Ok(TradingPairOf(AssetIdFromProto(tp.asset_1.v).val,
                          AssetIdFromProto(tp.asset_2.v).val))

\* impl From<SwapPlaintext> for pb::SwapPlaintext, with t1 and t2 exchanged
\* (a faulty variant of SwapToProto).
SwapToProtoSwapped(plaintext) ==
    [t1 |-> plaintext.t2,
     t2 |-> plaintext.t1,
     fee |-> Some([amount |-> plaintext.fee]),
     b_d |-> Compress(plaintext.b_d),
     pk_d |-> plaintext.pk_d,
     trading_pair |-> Some(TradingPairToProto(plaintext.trading_pair))]

\* impl From<SwapPlaintext> for pb::SwapPlaintext
SwapToProto(plaintext) ==
    [t1 |-> plaintext.t1,
     t2 |-> plaintext.t2,
     fee |-> Some([amount |-> plaintext.fee]),
     b_d |-> Compress(plaintext.b_d),
     pk_d |-> plaintext.pk_d,
     trading_pair |-> Some(TradingPairToProto(plaintext.trading_pair))]

\* impl TryFrom<pb::SwapPlaintext> for SwapPlaintext, accepting an absent fee
\* as the default amount 0 (a faulty variant of SwapFromProto).
SwapFromProtoDefaultFee(plaintext) ==
    IF Len(plaintext.b_d) # 32
    THEN Err(Anyhow("invalid diversified basepoint in SwapPlaintext"))
    ELSE IF ~IsOk(Decompress(plaintext.b_d))
    THEN Err(Anyhow("error decompressing diversified basepoint in SwapPlaintext"))
    ELSE IF Len(plaintext.pk_d) # 32
    THEN Err(Anyhow("invalid diversified publickey in SwapPlaintext"))
    ELSE IF ~plaintext.trading_pair.some
    THEN Err(Anyhow("missing trading pair in SwapPlaintext"))
    ELSE IF ~IsOk(TradingPairFromProto(plaintext.trading_pair.v))
    THEN TradingPairFromProto(plaintext.trading_pair.v)
    ELSE Ok([trading_pair |-> TradingPairFromProto(plaintext.trading_pair.v).val,
             t1 |-> plaintext.t1,
             t2 |-> plaintext.t2,
             fee |-> IF plaintext.fee.some THEN plaintext.fee.v.amount
                     ELSE U64FromLimbs(0, 0, 0, 0),
             b_d |-> Decompress(plaintext.b_d).val,
             pk_d |-> plaintext.pk_d])

\* impl TryFrom<pb::SwapPlaintext> for SwapPlaintext.  The checks run in the
\* order of the source: b_d length, then the struct's fields in the order
\* they are written (fee, b_d decompression, pk_d length, trading_pair).
SwapFromProto(plaintext) ==
    IF Len(plaintext.b_d) # 32
    THEN Err(Anyhow("invalid diversified basepoint in SwapPlaintext"))
    ELSE IF ~plaintext.fee.some
    THEN Err(Anyhow("missing SwapPlaintext fee"))
    ELSE IF ~IsOk(Decompress(plaintext.b_d))
    THEN Err(Anyhow("error decompressing diversified basepoint in SwapPlaintext"))
    ELSE IF Len(plaintext.pk_d) # 32
    THEN Err(Anyhow("invalid diversified publickey in SwapPlaintext"))
    ELSE IF ~plaintext.trading_pair.some
    THEN Err(Anyhow("missing trading pair in SwapPlaintext"))
    ELSE IF ~IsOk(TradingPairFromProto(plaintext.trading_pair.v))
    THEN TradingPairFromProto(plaintext.trading_pair.v)
    ELSE Ok([trading_pair |-> TradingPairFromProto(plaintext.trading_pair.v).val,
             t1 |-> plaintext.t1,
             t2 |-> plaintext.t2,
             fee |-> plaintext.fee.v.amount,
             b_d |-> Decompress(plaintext.b_d).val,
             pk_d |-> plaintext.pk_d])

----------------------------------------------------------------------------
(* ka: key agreement over the group.  A secret is a scalar, a public key   *)
(* and a shared secret are 32-octet element encodings.                     *)

\* ka::Secret::to_bytes
SecretToBytes(esk) == Low32(esk)

\* ka::Secret::diversified_public
DiversifiedPublic(esk, b_d) == Compress((esk * b_d) % GroupOrder)

\* ka::Secret::key_agreement_with: fails on a public key that is no encoding.
KeyAgreementWith(esk, pk) ==
    IF IsOk(Decompress(pk))
    THEN Ok(Compress((esk * Decompress(pk).val) % GroupOrder))
    ELSE Err("ka::Error::InvalidPublic")

----------------------------------------------------------------------------
(* Blake2b-256 over the two 32-octet updates a and b: a mixing function    *)
(* that has no collision on the inputs of this model.                      *)

Blake2b256(a, b) == [j \in 1..32 |-> (a[j] + 16 * b[j] + j) % 256]

\* SwapPlaintext::derive_symmetric_key
DeriveSymmetricKey(shared_secret, epk) == Blake2b256(shared_secret, epk)

\* SwapPlaintext::derive_ock
DeriveOck(ovk, epk) == Blake2b256(ovk, epk)

----------------------------------------------------------------------------
(* ChaCha20-Poly1305: xor with a key stream, followed by a 16-octet tag    *)
(* over key and ciphertext body.                                           *)

\* The tag is what a sealed buffer is longer by (153 -> 169, 64 -> 80).
TAG_LEN == SWAP_CIPHERTEXT_BYTES - SWAP_LEN_BYTES

KeyStream(key, nonce, i) ==
    (key[((i - 1) % 32) + 1] + nonce[((i - 1) % 12) + 1] + 7 * i) % 256

\* The sum of w(i) * s[i] over lo..hi, by halving the range.
RECURSIVE SumRange(_, _, _, _)
SumRange(s, lo, hi, weighted) ==
    IF lo > hi THEN 0
    ELSE IF lo = hi THEN (IF weighted THEN lo * s[lo] ELSE s[lo])
    ELSE LET mid == (lo + hi) \div 2
         IN  SumRange(s, lo, mid, weighted) + SumRange(s, mid + 1, hi, weighted)

Poly1305Tag(key, body) ==
    LET s1 == SumRange(body, 1, Len(body), FALSE)
        s2 == SumRange(body, 1, Len(body), TRUE)
    IN  [j \in 1..TAG_LEN |-> (key[j] + key[j + TAG_LEN] + j * s1 + s2) % 256]

\* Aead::encrypt(nonce, msg)
AeadEncrypt(key, nonce, msg) ==
    LET body == [i \in 1..Len(msg) |-> XorByte(msg[i], KeyStream(key, nonce, i))]
    IN  body \o Poly1305Tag(key, body)

\* Aead::decrypt(nonce, ciphertext)
AeadDecrypt(key, nonce, ct) ==
    IF Len(ct) < TAG_LEN THEN Err("aead::Error")
    ELSE LET n == Len(ct) - TAG_LEN
             body == SubSeq(ct, 1, n)
             tag == SubSeq(ct, n + 1, Len(ct))
         IN  IF Poly1305Tag(key, body) # tag THEN Err("aead::Error")
             ELSE Ok([i \in 1..n |-> XorByte(body[i], KeyStream(key, nonce, i))])

----------------------------------------------------------------------------
(* Encryption, key wrapping, decryption                                    *)

\* The octets sealed in the wrong order, esk || pk_d (a faulty variant of OvkPayload).
OvkPayloadReversed(swap, esk) == SecretToBytes(esk) \o swap.pk_d

\* The octets SwapPlaintext::encrypt_key seals: pk_d || esk.
OvkPayload(swap, esk) == swap.pk_d \o SecretToBytes(esk)

\* SwapPlaintext::encrypt_key
EncryptKey(swap, esk, ovk) ==
    LET epk == DiversifiedPublic(esk, swap.b_d)
        ock == DeriveOck(ovk, epk)
        out == AeadEncrypt(ock, SWAP_ENCRYPTION_NONCE, OvkPayload(swap, esk))
    IN  IF Len(out) # OVK_WRAPPED_LEN_BYTES
        THEN Panic("OVK encryption result fits in ciphertext len")
        ELSE Ok(out)

\* The (key, message) pair SwapPlaintext::encrypt_key hands to the AEAD.
EncryptKeySeals(swap, esk, ovk) ==
    {[key |-> DeriveOck(ovk, DiversifiedPublic(esk, swap.b_d)),
      msg |-> OvkPayload(swap, esk)]}

\* SwapPlaintext::encrypt
Encrypt(swap, esk) ==
    LET epk == DiversifiedPublic(esk, swap.b_d)
        shared_secret == KeyAgreementWith(esk, swap.pk_d)
    IN  IF ~IsOk(shared_secret) THEN Panic("key agreement succeeds")
        ELSE LET key == DeriveSymmetricKey(shared_secret.val, epk)
                 out == AeadEncrypt(key, SWAP_ENCRYPTION_NONCE, SwapToVec(swap))
             IN  IF Len(out) # SWAP_CIPHERTEXT_BYTES
                 THEN Panic("swap encryption result fits in ciphertext len")
                 ELSE Ok(out)

\* The (key, message) pair SwapPlaintext::encrypt hands to the AEAD (none when
\* the key agreement panics first).
EncryptSeals(swap, esk) ==
    IF ~IsOk(KeyAgreementWith(esk, swap.pk_d)) THEN {}
    ELSE {[key |-> DeriveSymmetricKey(KeyAgreementWith(esk, swap.pk_d).val,
                                      DiversifiedPublic(esk, swap.b_d)),
           msg |-> SwapToVec(swap)]}

\* SwapCiphertext::decrypt.  Every error it returns is an anyhow error; the
\* typed kinds of SwapFromBytes are replaced by one message.
Decrypt(ct, esk, transmission_key, diversified_basepoint) ==
    LET shared_secret == KeyAgreementWith(esk, transmission_key)
        epk == DiversifiedPublic(esk, diversified_basepoint)
    IN  IF ~IsOk(shared_secret) THEN Panic("key agreement succeeds")
        ELSE LET key == DeriveSymmetricKey(shared_secret.val, epk)
                 dec == AeadDecrypt(key, SWAP_ENCRYPTION_NONCE, ct)
             IN  IF ~IsOk(dec) THEN Err(Anyhow("unable to decrypt swap ciphertext"))
                 ELSE IF Len(dec.val) # SWAP_LEN_BYTES
                 THEN Err(Anyhow("swap decryption result did not fit in plaintext len"))
                 ELSE IF ~IsOk(SwapFromBytes(dec.val))
                 THEN Err(Anyhow("unable to convert swap plaintext bytes into SwapPlaintext"))
                 ELSE SwapFromBytes(dec.val)

\* ka::Secret::from_bytes: a canonical scalar encoding.
SecretFromBytes(b) ==
    IF Len(b) = 32 /\ b[1] < GroupOrder /\ (\A i \in 2..32 : b[i] = 0)
    THEN Ok(b[1])
    ELSE Err("ka::Error::InvalidSecret")

\* Sender recovery of (pk_d, esk) from the wrapped key: open under ock, split
\* 32 + 32, validate both halves.
UnwrapOvk(wrapped, ovk, epk) ==
    LET dec == AeadDecrypt(DeriveOck(ovk, epk), SWAP_ENCRYPTION_NONCE, wrapped)
    IN  IF ~IsOk(dec) THEN Err(SwapError("DecryptionError"))
        ELSE IF Len(dec.val) # 64 THEN Err(SwapError("DecryptionError"))
        ELSE IF ~IsEncoding(SubSeq(dec.val, 1, 32))
        THEN Err(SwapError("SwapDeserializationError"))
        ELSE IF ~IsOk(SecretFromBytes(SubSeq(dec.val, 33, 64)))
        THEN Err(SwapError("SwapDeserializationError"))
        ELSE Ok([pk_d |-> SubSeq(dec.val, 1, 32),
                 esk |-> SecretFromBytes(SubSeq(dec.val, 33, 64)).val])

----------------------------------------------------------------------------
(* Inputs                                                                  *)

NumAssets == 2
MaxExtraLen == 1
MaxSeals == 2

Assets == 1..NumAssets

TradingPairs == {TradingPairOf(a1, a2) : a1 \in Assets, a2 \in Assets}

Amounts ==
    {U64FromLimbs(0, 0, 0, 0), U64FromLimbs(100, 0, 0, 0),
     U64FromLimbs(513, 7, 0, 1), U64FromLimbs(65535, 65535, 65535, 65535)}

Fees == {U64FromLimbs(3, 0, 0, 0), U64FromLimbs(0, 256, 0, 0)}

\* 32-octet strings that are not the encoding of a group element.
BadEncodings == {Low32(1), [i \in 1..32 |-> 255]}

\* Transmission keys as from_parts accepts them: any 32 octets.
PublicKeys == {Compress(e) : e \in Element} \cup BadEncodings

Secrets == 0..(GroupOrder - 1)

OutgoingViewingKeys == {Low32(1), [i \in 1..32 |-> i]}

Plaintexts ==
    {FromParts(tp, t1, t2, fee, b_d, pk_d).val :
        tp \in TradingPairs, t1 \in Amounts,
        t2 \in {U64FromLimbs(0, 0, 0, 0), U64FromLimbs(513, 7, 0, 1)},
        fee \in Fees, b_d \in Element,
        pk_d \in {Compress(2), Compress(0), Low32(1)}}

\* The plaintexts whose encodings are also fed to the parsers in modified form.
SmallPlaintexts ==
    {p \in Plaintexts :
        /\ p.t1 = U64FromLimbs(100, 0, 0, 0)
        /\ p.t2 = U64FromLimbs(0, 0, 0, 0)
        /\ p.fee = U64FromLimbs(3, 0, 0, 0)
        /\ p.b_d \in {0, 1}}

----------------------------------------------------------------------------
(* SpecCodec: the canonical encoding and its parser                        *)

BufferLens ==
    {0, 1, SWAP_LEN_BYTES - 1} \cup (SWAP_LEN_BYTES..(SWAP_LEN_BYTES + MaxExtraLen))

BufferMods ==
    [len : BufferLens, lead : {SWAP_TYPE, 1, 66, 255}, bd_bad : BOOLEAN,
     asset_bad : BOOLEAN]

NoBufferMod ==
    [len |-> SWAP_LEN_BYTES, lead |-> SWAP_TYPE, bd_bad |-> FALSE, asset_bad |-> FALSE]

\* The buffer b (153 octets) as a caller may hand it to the parser: an asset
\* id made non-canonical, b_d made undecodable, the leading octet replaced,
\* the buffer cut or extended.
ModifyBuffer(b, mod) ==
    LET b1 == IF mod.asset_bad THEN [b EXCEPT ![3] = 1] ELSE b
        b2 == IF mod.bd_bad THEN [b1 EXCEPT ![122] = 1] ELSE b1
        b3 == [b2 EXCEPT ![1] = mod.lead]
    IN  IF mod.len <= SWAP_LEN_BYTES THEN SubSeq(b3, 1, mod.len)
        ELSE b3 \o Zeros(mod.len - SWAP_LEN_BYTES)

Init ==
    /\ op = "init"
    /\ arg = <<>>
    /\ res = Ok(<<>>)
    /\ sealed = {}
    /\ tables = {}
    /\ rows = <<>>

\* The call has returned: the caller is idle again, the call forgotten.
Return ==
    /\ op # "init"
    /\ op' = "init"
    /\ arg' = <<>>
    /\ res' = Ok(<<>>)
    /\ sealed' = {}
    /\ UNCHANGED <<tables, rows>>

EncodeSwap ==
    /\ op = "init"
    /\ \E p \in Plaintexts :
        /\ op' = "encode"
        /\ arg' = p
        /\ res' = Ok(SwapToArray(p))
        /\ UNCHANGED <<sealed, tables, rows>>

ParseSwap ==
    /\ op = "encode"
    /\ \E mod \in BufferMods :
        /\ mod = NoBufferMod \/ arg \in SmallPlaintexts
        /\ op' = "parse"
        /\ arg' = [p |-> arg, mod |-> mod, bytes |-> ModifyBuffer(res.val, mod)]
        /\ res' = SwapFromBytes(ModifyBuffer(res.val, mod))
        /\ UNCHANGED <<sealed, tables, rows>>

NextCodec == EncodeSwap \/ ParseSwap \/ Return

SpecCodec == Init /\ [][NextCodec]_vars

\* C6: the canonical encoding of every plaintext has 153 octets laid out as
\* SWAP_TYPE(1) || trading_pair(64) || t1 LE(8) || t2 LE(8) || fee LE(8) ||
\* pk_d(32) || b_d(32), and parsing it returns Ok with the same plaintext.
C6_CodecRoundTrip ==
    /\ op = "encode" =>
        /\ Len(res.val) = 153
        /\ res.val[1] = 0
        /\ SubSeq(res.val, 2, 33) = AssetIdToBytes(arg.trading_pair.asset_1)
        /\ SubSeq(res.val, 34, 65) = AssetIdToBytes(arg.trading_pair.asset_2)
        /\ SubSeq(res.val, 66, 73) = ToLeBytes(arg.t1)
        /\ SubSeq(res.val, 74, 81) = ToLeBytes(arg.t2)
        /\ SubSeq(res.val, 82, 89) = ToLeBytes(arg.fee)
        /\ SubSeq(res.val, 90, 121) = arg.pk_d
        /\ SubSeq(res.val, 122, 153) = Compress(arg.b_d)
    /\ (op = "parse" /\ arg.mod = NoBufferMod) => res = Ok(arg.p)

C6_Witness ==
    /\ op = "parse"
    /\ arg.mod = NoBufferMod
    /\ arg.p.t1 = U64FromLimbs(513, 7, 0, 1)
    /\ arg.p.trading_pair.asset_1 # arg.p.trading_pair.asset_2
    /\ arg.p.pk_d # Compress(arg.p.b_d)
    /\ res = Ok(arg.p)

\* C7: the parser returns SwapDeserializationError for every buffer whose
\* length is not 153, whatever its leading octet, and SwapTypeUnsupported
\* for every 153-octet buffer whose leading octet is not 0x00, whatever the
\* remaining fields; no plaintext is produced in either case.
C7_ParseRejection ==
    op = "parse" =>
        /\ Len(arg.bytes) # 153 => res = Err(SwapError("SwapDeserializationError"))
        /\ (Len(arg.bytes) = 153 /\ arg.bytes[1] # 0) =>
                res = Err(SwapError("SwapTypeUnsupported"))

C7_Witness ==
    /\ op = "parse"
    /\ Len(arg.bytes) = 153
    /\ arg.bytes[1] = 66
    /\ arg.mod.bd_bad
    /\ res = Err(SwapError("SwapTypeUnsupported"))

----------------------------------------------------------------------------
(* SpecProto: the protobuf bridge                                          *)

ProtoMods ==
    [fee_absent : BOOLEAN, tp_absent : BOOLEAN, a1_absent : BOOLEAN,
     a2_absent : BOOLEAN, a1_bad : BOOLEAN, a2_bad : BOOLEAN,
     bd : {"ok", "short", "long", "invalid"}, pk : {"ok", "short", "long"}]

NoProtoMod ==
    [fee_absent |-> FALSE, tp_absent |-> FALSE, a1_absent |-> FALSE,
     a2_absent |-> FALSE, a1_bad |-> FALSE, a2_bad |-> FALSE,
     bd |-> "ok", pk |-> "ok"]

ModifyBytes(b, how) ==
    CASE how = "ok" -> b
      [] how = "short" -> SubSeq(b, 1, Len(b) - 1)
      [] how = "long" -> b \o <<0>>
      [] how = "invalid" -> [b EXCEPT ![1] = 1]

ModifyAsset(a, absent, bad) ==
    IF absent THEN None
    ELSE IF bad THEN Some([inner |-> ModifyBytes(a.v.inner, "short")])
    ELSE a

\* The message m as a peer may send it: optional fields absent, byte fields
\* of the wrong length or undecodable.
ModifyProto(m, mod) ==
    [t1 |-> m.t1,
     t2 |-> m.t2,
     fee |-> IF mod.fee_absent THEN None ELSE m.fee,
     b_d |-> ModifyBytes(m.b_d, mod.bd),
     pk_d |-> ModifyBytes(m.pk_d, mod.pk),
     trading_pair |->
        IF mod.tp_absent THEN None
        ELSE Some([asset_1 |-> ModifyAsset(m.trading_pair.v.asset_1,
                                           mod.a1_absent, mod.a1_bad),
                   asset_2 |-> ModifyAsset(m.trading_pair.v.asset_2,
                                           mod.a2_absent, mod.a2_bad)])]

ToProto ==
    /\ op = "init"
    /\ \E p \in Plaintexts :
        /\ op' = "to_proto"
        /\ arg' = p
        /\ res' = Ok(SwapToProto(p))
        /\ UNCHANGED <<sealed, tables, rows>>

FromProto ==
    /\ op = "to_proto"
    /\ \E mod \in ProtoMods :
        /\ mod = NoProtoMod \/ (arg \in SmallPlaintexts /\ arg.pk_d = Compress(2))
        /\ op' = "from_proto"
        /\ arg' = [p |-> arg, mod |-> mod, msg |-> ModifyProto(res.val, mod)]
        /\ res' = SwapFromProto(ModifyProto(res.val, mod))
        /\ UNCHANGED <<sealed, tables, rows>>

NextProto == ToProto \/ FromProto \/ Return

SpecProto == Init /\ [][NextProto]_vars

----------------------------------------------------------------------------
(* SpecCipher: one encryption or key wrapping, then its decryption         *)

CipherPlaintexts ==
    {p \in Plaintexts :
        /\ p.trading_pair.asset_1 = 1
        /\ p.t1 \in {U64FromLimbs(0, 0, 0, 0), U64FromLimbs(100, 0, 0, 0)}
        /\ p.t2 = U64FromLimbs(0, 0, 0, 0)
        /\ p.fee = U64FromLimbs(3, 0, 0, 0)
        /\ p.b_d \in {0, 1, 3}}

\* The plaintexts whose ciphertexts are tampered with at every bit.
TamperPlaintexts ==
    {p \in CipherPlaintexts :
        /\ p.t1 = U64FromLimbs(100, 0, 0, 0)
        /\ p.b_d = 1
        /\ p.pk_d = Compress(2)}

EncryptCall(P, S) ==
    /\ op = "init"
    /\ Cardinality(sealed) < MaxSeals
    /\ \E p \in P, esk \in S :
        /\ op' = "encrypt"
        /\ arg' = [p |-> p, esk |-> esk]
        /\ res' = Encrypt(p, esk)
        /\ sealed' = sealed \cup EncryptSeals(p, esk)
        /\ UNCHANGED <<tables, rows>>

EncryptKeyCall(P, S, K) ==
    /\ op = "init"
    /\ Cardinality(sealed) < MaxSeals
    /\ \E p \in P, esk \in S, ovk \in K :
        /\ op' = "encrypt_key"
        /\ arg' = [p |-> p, esk |-> esk, ovk |-> ovk]
        /\ res' = EncryptKey(p, esk, ovk)
        /\ sealed' = sealed \cup EncryptKeySeals(p, esk, ovk)
        /\ UNCHANGED <<tables, rows>>

EncryptSwap == EncryptCall(CipherPlaintexts, Secrets)

EncryptSwapKey == EncryptKeyCall(CipherPlaintexts, Secrets, OutgoingViewingKeys)

\* The receiver decrypts the ciphertext just produced, with any secret,
\* transmission key and basepoint.
DecryptSwap ==
    /\ op = "encrypt"
    /\ IsOk(res)
    /\ \E esk \in Secrets, pk \in PublicKeys, bd \in Element :
        /\ op' = "decrypt"
        /\ arg' = [p |-> arg.p, esk0 |-> arg.esk, ct |-> res.val,
                   esk |-> esk, pk |-> pk, bd |-> bd]
        /\ res' = Decrypt(res.val, esk, pk, bd)
        /\ UNCHANGED <<sealed, tables, rows>>

\* The receiver decrypts the ciphertext just produced with one bit flipped,
\* using the right secret, transmission key and basepoint.
DecryptTampered ==
    /\ op = "encrypt"
    /\ IsOk(res)
    /\ arg.p \in TamperPlaintexts
    /\ \E i \in 1..SWAP_CIPHERTEXT_BYTES, k \in 0..7 :
        /\ op' = "decrypt_tampered"
        /\ arg' = [p |-> arg.p, esk0 |-> arg.esk, octet |-> i, bit |-> k,
                   ct |-> FlipBit(res.val, i, k)]
        /\ res' = Decrypt(FlipBit(res.val, i, k), arg.esk, arg.p.pk_d, arg.p.b_d)
        /\ UNCHANGED <<sealed, tables, rows>>

\* The sender unwraps the key just wrapped, with any viewing key and
\* ephemeral public key, and decrypts the swap's ciphertext with what the
\* unwrapping recovered.
RecoverSwap ==
    /\ op = "encrypt_key"
    /\ IsOk(res)
    /\ \E ovk \in OutgoingViewingKeys, epk \in {Compress(e) : e \in Element} :
        LET unwrapped == UnwrapOvk(res.val, ovk, epk)
            ct == Encrypt(arg.p, arg.esk)
        IN  /\ op' = "recover"
            /\ arg' = [p |-> arg.p, esk |-> arg.esk, ovk |-> arg.ovk,
                       wrapped |-> res.val, ovk2 |-> ovk, epk |-> epk]
            /\ res' = [unwrap |-> unwrapped,
                       plaintext |->
                           IF ~IsOk(unwrapped) THEN unwrapped
                           ELSE IF ~IsOk(ct) THEN ct
                           ELSE Decrypt(ct.val, unwrapped.val.esk,
                                        unwrapped.val.pk_d, arg.p.b_d)]
            /\ UNCHANGED <<sealed, tables, rows>>

NextCipher ==
    EncryptSwap \/ EncryptSwapKey \/ DecryptSwap \/ DecryptTampered \/ RecoverSwap
    \/ Return

SpecCipher == Init /\ [][NextCipher]_vars

----------------------------------------------------------------------------
(* SpecSeal: a caller's sequence of encrypt and encrypt_key calls; sealed  *)
(* is the history of (key, message) pairs handed to the AEAD, all under    *)
(* the one nonce.                                                          *)

SealPlaintexts ==
    {p \in CipherPlaintexts :
        /\ p.trading_pair.asset_2 = 1
        /\ p.b_d = 1
        /\ p.pk_d \in {Compress(2), Compress(0)}}

SealSecrets == {1, 2}

SealEncrypt == EncryptCall(SealPlaintexts, SealSecrets)

SealEncryptKey == EncryptKeyCall(SealPlaintexts, SealSecrets, OutgoingViewingKeys)

\* The call has returned; the keys it used are gone, the history stays.
ReturnToCaller ==
    /\ op # "init"
    /\ op' = "init"
    /\ arg' = <<>>
    /\ res' = Ok(<<>>)
    /\ UNCHANGED <<sealed, tables, rows>>

NextSeal == SealEncrypt \/ SealEncryptKey \/ ReturnToCaller

SpecSeal == Init /\ [][NextSeal]_vars

----------------------------------------------------------------------------
(* SpecIndexer: FmdCluesExample over a database that starts empty.  tables *)
(* is the set of tables that exist, rows the rows inserted so far.         *)

MaxAttrs == 2
MaxRows == 2

\* The table init_chain creates (CREATE TABLE IF NOT EXISTS ...).
InitChainTable == "fmd_clues_example"

\* The table index_event inserts into (INSERT INTO ...).
IndexEventTable == "fmd_clues"

\* FmdCluesExample::is_relevant
IsRelevant(type_str) ==
    type_str = "penumbra.core.component.shielded_pool.v1.EventBroadcastClue"

Attributes == [key : {"clue", "note"}, value : {"c1", "c2", "c3"}]

AttributeLists == UNION {[1..n -> Attributes] : n \in 0..MaxAttrs}

Events ==
    [type_str : {"penumbra.core.component.shielded_pool.v1.EventBroadcastClue",
                 "penumbra.core.component.dex.v1.EventSwap"},
     attributes : AttributeLists,
     tx_hash : {None, Some("h1"), Some("h2")}]

HasClue(event) == \E i \in 1..Len(event.attributes) : event.attributes[i].key = "clue"

\* attributes.iter().find(|attr| attr.key_str() == "clue"): the first one.
FirstClue(event) ==
    LET i == CHOOSE j \in 1..Len(event.attributes) :
                /\ event.attributes[j].key = "clue"
                /\ \A k \in 1..(j - 1) : event.attributes[k].key # "clue"
    IN  event.attributes[i].value

\* sqlx INSERT INTO table: an error when the table does not exist, else a
\* new row with the next serial id.
InsertInto(table, tx_hash, fmd_clue) ==
    IF table \notin tables
    THEN [result |-> Err(Anyhow("sqlx: relation does not exist")), rows |-> rows]
    ELSE [result |-> Ok(<<>>),
          rows |-> Append(rows,
                     [table |-> table,
                      id |-> 1 + Cardinality({i \in 1..Len(rows) : rows[i].table = table}),
                      tx_hash |-> tx_hash,
                      fmd_clue |-> fmd_clue])]

\* FmdCluesExample::init_chain
InitChain ==
    /\ op = "init"
    /\ op' = "init_chain"
    /\ arg' = <<>>
    /\ tables' = tables \cup {InitChainTable}
    /\ res' = Ok(<<>>)
    /\ UNCHANGED <<sealed, rows>>

\* FmdCluesExample::index_event, which the harness calls for the events
\* is_relevant accepts.
IndexEvent ==
    /\ op = "init"
    /\ Len(rows) < MaxRows
    /\ \E event \in Events :
        /\ IsRelevant(event.type_str)
        /\ op' = "index_event"
        /\ arg' = event
        /\ IF ~HasClue(event)
           THEN res' = Panic("fmd_clue attribute not found") /\ rows' = rows
           ELSE IF ~event.tx_hash.some
           THEN res' = Panic("tx_hash not found") /\ rows' = rows
           ELSE /\ res' = InsertInto(IndexEventTable, event.tx_hash.v, FirstClue(event)).result
                /\ rows' = InsertInto(IndexEventTable, event.tx_hash.v, FirstClue(event)).rows
        /\ UNCHANGED <<sealed, tables>>

NextIndexer == InitChain \/ IndexEvent \/ Return

SpecIndexer == Init /\ [][NextIndexer]_vars

----------------------------------------------------------------------------
(* Claims                                                                  *)

Correct(a) == a.esk = a.esk0 /\ a.pk = a.p.pk_d /\ a.bd = a.p.b_d

\* C1: decrypting p.encrypt(esk) with the same esk, transmission_key = p.pk_d
\* and diversified_basepoint = p.b_d returns Ok with a plaintext equal to p
\* in every field, whenever the key agreement with p.pk_d succeeds.
C1_ReceiverRoundTrip ==
    (op = "decrypt" /\ Correct(arg)) => res = Ok(arg.p)

C1_Witness ==
    /\ op = "decrypt"
    /\ Correct(arg)
    /\ arg.esk0 = 2
    /\ arg.p.b_d = 3
    /\ arg.p.t1 = U64FromLimbs(100, 0, 0, 0)
    /\ res = Ok(arg.p)

\* C2: over any sequence of encrypt and encrypt_key calls, no derived key
\* (k_enc or ock) is used to seal two distinct messages.
C2_SingleUseKeys ==
    \A s1 \in sealed, s2 \in sealed : s1.key = s2.key => s1.msg = s2.msg

\* C3: unwrapping the 80-octet output of p.encrypt_key(esk, ovk) with
\* (ovk, epk), epk = esk.diversified_public(p.b_d), yields exactly
\* (p.pk_d, esk), and decrypting p.encrypt(esk) with the recovered values
\* yields p, for every plaintext whose pk_d is a group encoding.
C3_SenderRecovery ==
    (/\ op = "recover"
     /\ arg.ovk2 = arg.ovk
     /\ arg.epk = DiversifiedPublic(arg.esk, arg.p.b_d)
     /\ IsEncoding(arg.p.pk_d))
    => /\ Len(arg.wrapped) = 80
       /\ res.unwrap = Ok([pk_d |-> arg.p.pk_d, esk |-> arg.esk])
       /\ res.plaintext = Ok(arg.p)

C3_Witness ==
    /\ op = "recover"
    /\ arg.ovk2 = arg.ovk
    /\ arg.epk = DiversifiedPublic(arg.esk, arg.p.b_d)
    /\ arg.p.pk_d = Compress(2)
    /\ arg.esk = 3
    /\ arg.p.b_d = 1
    /\ res.unwrap = Ok([pk_d |-> arg.p.pk_d, esk |-> 3])
    /\ res.plaintext = Ok(arg.p)

\* C4: decrypting p.encrypt(esk) with a wrong esk, a wrong pk_d (any 32
\* octets, group encoding or not) or a wrong b_d returns the error
\* DecryptionError: never Ok, never a panic.
C4_Binding ==
    (op = "decrypt" /\ ~Correct(arg)) => res = Err(SwapError("DecryptionError"))

\* C5: decrypting a valid ciphertext with any single bit flipped, under the
\* right esk, pk_d and b_d, returns an error of kind DecryptionError.
C5_Tampering ==
    op = "decrypt_tampered" => res = Err(SwapError("DecryptionError"))

HasMissingField(m) ==
    \/ ~m.fee.some
    \/ ~m.trading_pair.some
    \/ (m.trading_pair.some /\ ~m.trading_pair.v.asset_1.some)
    \/ (m.trading_pair.some /\ ~m.trading_pair.v.asset_2.some)

MalformedAsset(a) == a.some /\ ~IsOk(AssetIdFromProto(a.v))

HasMalformedField(m) ==
    \/ Len(m.b_d) # 32
    \/ ~IsEncoding(m.b_d)
    \/ Len(m.pk_d) # 32
    \/ (m.trading_pair.some /\ MalformedAsset(m.trading_pair.v.asset_1))
    \/ (m.trading_pair.some /\ MalformedAsset(m.trading_pair.v.asset_2))

MissingFieldErrors ==
    {Anyhow("missing SwapPlaintext fee"),
     Anyhow("missing trading pair in SwapPlaintext"),
     Anyhow("missing trading pair asset1"),
     Anyhow("missing trading pair asset2")}

\* C8 as stated: the conversion fails with a missing-field error whenever fee,
\* trading_pair, asset_1 or asset_2 is absent, also when another field of the
\* same message is malformed.
C8_MissingFieldAlways ==
    (op = "from_proto" /\ HasMissingField(arg.msg))
    => (IsErr(res) /\ res.err \in MissingFieldErrors)

\* C8 as amended: the conversion fails whenever fee, trading_pair, asset_1 or
\* asset_2 is absent; the failure is a missing-field error when every field
\* that is present is well-formed, and a failure for a malformed field alone
\* is never a missing-field error.
C8_MissingField ==
    op = "from_proto" =>
        /\ HasMissingField(arg.msg) => IsErr(res)
        /\ (HasMissingField(arg.msg) /\ ~HasMalformedField(arg.msg))
                => res.err \in MissingFieldErrors
        /\ (~HasMissingField(arg.msg) /\ HasMalformedField(arg.msg))
                => (IsErr(res) /\ res.err \notin MissingFieldErrors)

C8_Witness ==
    /\ op = "from_proto"
    /\ ~arg.msg.trading_pair.some
    /\ arg.msg.fee.some
    /\ ~HasMalformedField(arg.msg)
    /\ res = Err(Anyhow("missing trading pair in SwapPlaintext"))

\* C9: converting a plaintext into pb::SwapPlaintext and back returns Ok with
\* the same plaintext; fee and trading_pair are populated and b_d and pk_d
\* are 32 octets each.
C9_ProtoRoundTrip ==
    /\ op = "to_proto" =>
        /\ res.val.fee.some
        /\ res.val.trading_pair.some
        /\ Len(res.val.b_d) = 32
        /\ Len(res.val.pk_d) = 32
    /\ (op = "from_proto" /\ arg.mod = NoProtoMod) => res = Ok(arg.p)

C9_Witness ==
    /\ op = "from_proto"
    /\ arg.mod = NoProtoMod
    /\ arg.p.t1 # arg.p.t2
    /\ arg.p.trading_pair.asset_1 # arg.p.trading_pair.asset_2
    /\ res = Ok(arg.p)

\* C10: once init_chain has run on the empty database, index_event for an
\* event with a clue attribute and a tx_hash inserts its row into a table
\* that exists, and succeeds.
C10_IndexAfterInit ==
    (/\ op = "index_event"
     /\ InitChainTable \in tables
     /\ HasClue(arg)
     /\ arg.tx_hash.some)
    => /\ IsOk(res)
       /\ IndexEventTable \in tables

============================================================================
